---- MODULE Spec2Model ----
(***************************************************************************)
(* Model of keypool (python/keypool/__init__.py): the Keypool free-range   *)
(* allocator, its randomized search _find, and the KeypoolDict container   *)
(* with its DeferredKey handles.                                           *)
(*                                                                         *)
(* A free range is a pair <<lo, hi>>.  Python indexes lists from 0; the    *)
(* operators below keep the code's 0-based indices and read the list with  *)
(* At(f, i).                                                               *)
(***************************************************************************)
EXTENDS Integers, Sequences, FiniteSets, TLC

\* ---------------------------------------------------------------- bounds
\* At most MaxAlloc keys are outstanding at any time.
MaxAlloc == 9
\* Keypool(start=s) is constructed with s in 0..MaxStart.
MaxStart == 1
\* test_reuse: largest batch size and number of loop iterations modelled.
MaxItems == 6
MaxIter == 2
\* A caller of a KeypoolDict holds at most MaxHandles DeferredKey objects
\* and at most MaxDictKeys keys are outstanding.
MaxHandles == 2
MaxDictKeys == 2
\* A caller that makes handles and then discards them makes at most
\* MaxDiscard of them.
MaxDiscard == 8

\* ------------------------------------------------------- program constants
\* Keypool.infinity = 'infinity'.  The string is encoded as an integer that
\* no key of the model can take; every comparison against it goes through
\* PyGreater, which orders it the way Python 2 orders an int and a str.
Infinity == -1000
\* DeferredKey._key = None
None == -2000

\* start, free : Keypool._start, Keypool._free
\* inuse       : the keys returned by next() and not released since (history)
\* last        : the last pool operation, its arguments, outcome and pre-state
\*               (for a caller of a KeypoolDict: the pool operation of the
\*               latest call, NoOp when the call made none)
\* items       : the dict part of a KeypoolDict
\* garbage     : DeferredKey objects whose last reference was dropped and
\*               whose __del__ has not run yet
\* script      : position and locals of the calling program
\* alive       : the Keypool object still exists (the handles' weak
\*               references to it are live)
\* dlast       : the last KeypoolDict or DeferredKey operation and its outcome
VARIABLES start, free, inuse, last, items, garbage, script, alive, dlast

poolVars == <<start, free, inuse, last>>
dictVars == <<items, garbage>>
handleVars == <<alive, dlast>>
vars == <<start, free, inuse, last, items, garbage, script, alive, dlast>>

\* ------------------------------------------------------------- helpers
At(f, i) == f[i + 1]

\* list.insert(i, x)
ListInsert(f, i, x) == SubSeq(f, 1, i) \o <<x>> \o SubSeq(f, i + 1, Len(f))

\* del list[i]
ListDel(f, i) == SubSeq(f, 1, i) \o SubSeq(f, i + 2, Len(f))

\* Python 2 ordering of mixed values: every int is smaller than every str.
PyGreater(a, b) ==
  IF b = Infinity THEN FALSE
  ELSE IF a = Infinity THEN TRUE
  ELSE a > b

\* int(math.log(n)) for the list lengths of the model: e < 3, e^2 < 8,
\* e^3 < 21, e^4 < 55.
FloorLog(n) ==
  IF n < 3 THEN 0
  ELSE IF n < 8 THEN 1
  ELSE IF n < 21 THEN 2
  ELSE IF n < 55 THEN 3
  ELSE 4

\* ------------------------------------------------------------- Keypool

\* Keypool.__init__
KeypoolInit(s) == <<<<s, Infinity>>>>

\* Keypool.next that hands out the first key without taking it off the list.
KeypoolNextNoAdvance(f) ==
  [ret |-> At(f, 0)[1], free |-> f]

\* Keypool.next that serves from the last range instead of the first.
KeypoolNextFromLast(f) ==
  LET s == At(f, Len(f) - 1)[1]
      e == At(f, Len(f) - 1)[2]
  IN [ret  |-> s,
      free |-> IF s = e THEN ListDel(f, Len(f) - 1)
               ELSE [f EXCEPT ![Len(f)] = <<s + 1, e>>]]

\* Keypool.next: the key returned and the free list left behind.
KeypoolNext(f) ==
  LET s == At(f, 0)[1]
      e == At(f, 0)[2]
  IN [ret  |-> s,
      free |-> IF s = e THEN ListDel(f, 0)
               ELSE [f EXCEPT ![1] = <<s + 1, e>>]]

\* is_used with an inclusive bound on the range's lower end.
is_usedInclusive(f, i, key) ==
  IF i = 0 THEN key <= At(f, i)[1]
  ELSE PyGreater(key, At(f, i - 1)[2]) /\ key <= At(f, i)[1]

\* is_used that only looks at the range's lower end.
is_usedNoLowerCheck(f, i, key) == key < At(f, i)[1]

\* Keypool._find.is_used
is_used(f, i, key) ==
  IF i = 0 THEN key < At(f, i)[1]
  ELSE PyGreater(key, At(f, i - 1)[2]) /\ key < At(f, i)[1]

\* The while loop of Keypool._find: d probes made so far, probe index p.
\* max_d = math.log(len) + 1, and d is an integer, so d <= max_d is
\* d <= FloorLog(len) + 1.
RECURSIVE FindLoop(_, _, _, _)
FindLoop(f, key, p, d) ==
  IF d > FloorLog(Len(f)) + 1
  THEN [result |-> "KeyError", index |-> p, probes |-> d]
  ELSE IF is_used(f, p, key)
  THEN [result |-> "ok", index |-> p, probes |-> d + 1]
  ELSE IF key < At(f, p)[1]
  THEN FindLoop(f, key, p \div 2, d + 1)
  ELSE IF PyGreater(key, At(f, p)[2])
  THEN FindLoop(f, key, p + ((Len(f) - p) \div 2), d + 1)
  ELSE FindLoop(f, key, p, d + 1)

\* The upward move without the halving.
MoveUpNoHalving(n, p) == p + (n - p)

\* The two moves of the probe index: p = int(p/2.0) and
\* p += int((len(self._free) - p)/2.0).
MoveDown(p) == p \div 2

MoveUp(n, p) == p + ((n - p) \div 2)

\* The probe indices the while loop of _find visits, in order, from probe
\* index p after d probes; the list ends at the first index outside the
\* free list, where the read of self._free[p] would fail.
RECURSIVE ProbeSeq(_, _, _, _)
ProbeSeq(f, key, p, d) ==
  IF d > FloorLog(Len(f)) + 1 THEN <<>>
  ELSE IF p < 0 \/ p > Len(f) - 1 THEN <<p>>
  ELSE IF is_used(f, p, key) THEN <<p>>
  ELSE IF key < At(f, p)[1]
  THEN <<p>> \o ProbeSeq(f, key, MoveDown(p), d + 1)
  ELSE IF PyGreater(key, At(f, p)[2])
  THEN <<p>> \o ProbeSeq(f, key, MoveUp(Len(f), p), d + 1)
  ELSE <<p>> \o ProbeSeq(f, key, p, d + 1)

\* _find without the validity check on the key.
FindNoValidation(f, st, key, p0) == FindLoop(f, key, p0, 0)

\* Keypool._find with the random pivot p0 = random.randint(0, len - 1).
Find(f, st, key, p0) ==
  IF key < st \/ PyGreater(key, Infinity)
  THEN [result |-> "ValueError", index |-> 0, probes |-> 0]
  ELSE FindLoop(f, key, p0, 0)

\* A merge with the next range that drops the new range without extending
\* its neighbour.
MergeNextDropsKey(f, i) ==
  IF i < Len(f) - 1 /\ At(f, i + 1)[1] = At(f, i)[2] + 1
  THEN ListDel(f, i)
  ELSE f

\* A release that never merges with the previous range.
MergePrevNever(f, i) == f

\* The two merges of Keypool.__delitem__ after the insert at i.
MergeNext(f, i) ==
  IF i < Len(f) - 1 /\ At(f, i + 1)[1] = At(f, i)[2] + 1
  THEN ListDel([f EXCEPT ![i + 2] = <<At(f, i)[1], At(f, i + 1)[2]>>], i)
  ELSE f

MergePrev(f, i) ==
  IF i > 0 /\ At(f, i - 1)[2] = At(f, i)[1] - 1
  THEN ListDel([f EXCEPT ![i] = <<At(f, i - 1)[1], At(f, i)[2]>>], i)
  ELSE f

\* Keypool.__delitem__ (and Keypool.remove, its alias)
KeypoolDelitem(f, st, key, p0) ==
  LET r == Find(f, st, key, p0)
  IN IF r.result # "ok"
     THEN [result |-> r.result, free |-> f, index |-> r.index,
           probes |-> r.probes]
     ELSE [result |-> "ok",
           free   |-> MergePrev(MergeNext(ListInsert(f, r.index, <<key, key>>),
                                          r.index), r.index),
           index  |-> r.index,
           probes |-> r.probes]

\* ------------------------------------------------------------- state
NoOp == [op |-> "init", key |-> None, pivot |-> 0, result |-> "ok",
         ret |-> None, index |-> 0, probes |-> 0,
         prevFree |-> <<>>, prevInuse |-> {}]

\* No container or handle operation has run yet.
NoDictOp == [op |-> "init", h |-> 0, key |-> None, result |-> "ok",
             released |-> "none", took |-> FALSE, truth |-> FALSE]

Keys == (start - 1) .. (start + MaxAlloc)

EmptyDict == [k \in {} |-> 0]

\* The values a caller stores.
Vals == {"a"}

\* The locals of the calling program at the given position.
Script(ph) == [phase |-> ph, pending |-> {}, n |-> 0, iter |-> 0,
               building |-> <<>>, keys |-> <<>>, keys2 |-> <<>>]

Init ==
  /\ start \in 0 .. MaxStart
  /\ free = KeypoolInit(start)
  /\ inuse = {}
  /\ last = NoOp
  /\ items = EmptyDict
  /\ garbage = <<>>
  /\ script = Script("pool")
  /\ alive = TRUE
  /\ dlast = NoDictOp

\* pool.next()
DoAllocate ==
  \E r \in {KeypoolNext(free)} :
     /\ free' = r.free
     /\ inuse' = inuse \cup {r.ret}
     /\ last' = [op |-> "allocate", key |-> None, pivot |-> 0,
                 result |-> "ok", ret |-> r.ret, index |-> 0, probes |-> 0,
                 prevFree |-> free, prevInuse |-> inuse]
     /\ UNCHANGED start

\* del pool[key], the random pivot being p0
DoRelease(key, p0) ==
  \E r \in {KeypoolDelitem(free, start, key, p0)} :
     /\ free' = r.free
     /\ inuse' = IF r.result = "ok" THEN inuse \ {key} ELSE inuse
     /\ last' = [op |-> "release", key |-> key, pivot |-> p0,
                 result |-> r.result, ret |-> None, index |-> r.index,
                 probes |-> r.probes,
                 prevFree |-> free, prevInuse |-> inuse]
     /\ UNCHANGED start

Allocate ==
  /\ Cardinality(inuse) < MaxAlloc
  /\ DoAllocate
  /\ UNCHANGED <<items, garbage, script>>
  /\ UNCHANGED handleVars

Release ==
  \E key \in Keys : \E p0 \in 0 .. (Len(free) - 1) :
    /\ DoRelease(key, p0)
    /\ UNCHANGED <<items, garbage, script>>
    /\ UNCHANGED handleVars

Next == Allocate \/ Release

Spec == Init /\ [][Next]_vars

\* ------------------------------------------------- allocate, then release all
\* A caller that allocates some keys and then calls release() once for
\* every outstanding key, in any order.

InitDrain ==
  /\ start \in 0 .. MaxStart
  /\ free = KeypoolInit(start)
  /\ inuse = {}
  /\ last = NoOp
  /\ items = EmptyDict
  /\ garbage = <<>>
  /\ script = Script("alloc")
  /\ alive = TRUE
  /\ dlast = NoDictOp

DrainAllocate ==
  /\ script.phase = "alloc"
  /\ Cardinality(inuse) < MaxAlloc
  /\ DoAllocate
  /\ UNCHANGED <<items, garbage, script>>
  /\ UNCHANGED handleVars

DrainBegin ==
  /\ script.phase = "alloc"
  /\ inuse # {}
  /\ script' = [script EXCEPT !.phase = "release", !.pending = inuse]
  /\ UNCHANGED <<poolVars, items, garbage>>
  /\ UNCHANGED handleVars

DrainRelease ==
  /\ script.phase = "release"
  /\ \E key \in script.pending : \E p0 \in 0 .. (Len(free) - 1) :
       /\ DoRelease(key, p0)
       /\ script' = [script EXCEPT !.pending = @ \ {key}]
  /\ UNCHANGED <<items, garbage>>
  /\ UNCHANGED handleVars

NextDrain == DrainAllocate \/ DrainBegin \/ DrainRelease

SpecDrain == InitDrain /\ [][NextDrain]_vars

\* ------------------------------------------------- DeferredKey, KeypoolDict

\* DeferredKey.__init__
DeferredKeyInit == [key |-> None, autodel |-> TRUE]

\* DeferredKey.__eq__ for two handles of the same pool
DeferredKeyEq(a, b) ==
  IF a.key = None \/ b.key = None THEN FALSE ELSE a.key = b.key

\* dict.__delitem__
DictRemove(d, k) == [x \in (DOMAIN d) \ {k} |-> d[x]]

\* dict.__setitem__
DictPut(d, k, v) == [x \in (DOMAIN d) \cup {k} |-> IF x = k THEN v ELSE d[x]]

\* KeypoolDict.__delitem__ that forgets to hand the key back to the pool.
KeypoolDictDelitemNoRelease(d, f, st, key, p0) ==
  [result |-> "ok", free |-> f, index |-> 0, probes |-> 0,
   items |-> DictRemove(d, key)]

\* KeypoolDict.__delitem__ for an int key: the pool's __delitem__ runs first,
\* and an exception it raises leaves the dict entry in place.
KeypoolDictDelitem(d, f, st, key, p0) ==
  LET r == KeypoolDelitem(f, st, key, p0)
  IN [result |-> r.result, free |-> r.free, index |-> r.index,
      probes |-> r.probes,
      items |-> IF r.result = "ok" THEN DictRemove(d, key) ELSE d]

\* KeypoolDict.setitem(val): next() makes a DeferredKey, __setitem__ clears
\* its _autodel and reads its key, which takes a key from the pool, and the
\* value is stored under that key.  h is the DeferredKey returned.
DoSetitem(val, h) ==
  /\ DoAllocate
  /\ h = [DeferredKeyInit EXCEPT !.autodel = FALSE, !.key = KeypoolNext(free).ret]
  /\ items' = DictPut(items, h.key, val)

\* del items[key] for an int key, the random pivot being p0
DoDictDelitem(key, p0) ==
  \E r \in {KeypoolDictDelitem(items, free, start, key, p0)} :
    /\ free' = r.free
    /\ items' = r.items
    /\ inuse' = IF r.result = "ok" THEN inuse \ {key} ELSE inuse
    /\ last' = [op |-> "release", key |-> key, pivot |-> p0,
                result |-> r.result, ret |-> None, index |-> r.index,
                probes |-> r.probes,
                prevFree |-> free, prevInuse |-> inuse]
    /\ UNCHANGED start

\* DeferredKey.__del__ of the oldest unreferenced handle.
Dispose ==
  /\ garbage # <<>>
  /\ garbage' = Tail(garbage)
  /\ IF Head(garbage).key # None /\ Head(garbage).autodel /\ alive
     THEN \E p0 \in 0 .. (Len(free) - 1) : DoRelease(Head(garbage).key, p0)
     ELSE UNCHANGED poolVars
  /\ UNCHANGED <<items, script>>

\* ------------------------------------------------------------- test_reuse
\* tests.py test_reuse: each iteration draws a batch size, fills the dict
\* with setitem, deletes every entry, fills it again and compares the two
\* lists of keys.

MinKey(d) == CHOOSE k \in DOMAIN d : \A j \in DOMAIN d : k <= j

InitReuse ==
  /\ start = 0
  /\ free = KeypoolInit(start)
  /\ inuse = {}
  /\ last = NoOp
  /\ items = EmptyDict
  /\ garbage = <<>>
  /\ script = Script("choose")
  /\ alive = TRUE
  /\ dlast = NoDictOp

\* rand = random.randint(min_items, max_items)
ReuseChoose ==
  /\ script.phase = "choose"
  /\ script.iter < MaxIter
  /\ \E n \in 2 .. MaxItems :
       script' = [script EXCEPT !.phase = "insert1", !.n = n, !.building = <<>>]
  /\ UNCHANGED <<poolVars, dictVars>>
  /\ UNCHANGED handleVars

\* one items.setitem(i) of either list comprehension
ReuseSetitem ==
  /\ script.phase \in {"insert1", "insert2"}
  /\ garbage = <<>>
  /\ Len(script.building) < script.n
  /\ \E h \in {[key |-> k, autodel |-> FALSE] : k \in 0 .. (2 * MaxItems)} :
       /\ DoSetitem(Len(script.building), h)
       /\ script' = [script EXCEPT !.building = Append(@, h)]
  /\ UNCHANGED garbage
  /\ UNCHANGED handleVars

\* keys = [...]: the finished list is bound and the list it replaces is
\* dropped.
ReuseBindKeys ==
  /\ script.phase = "insert1"
  /\ Len(script.building) = script.n
  /\ garbage' = garbage \o script.keys
  /\ script' = [script EXCEPT !.phase = "delete1", !.keys = script.building,
                              !.building = <<>>]
  /\ UNCHANGED <<poolVars, items>>
  /\ UNCHANGED handleVars

\* keys2 = [...]
ReuseBindKeys2 ==
  /\ script.phase = "insert2"
  /\ Len(script.building) = script.n
  /\ garbage' = garbage \o script.keys2
  /\ script' = [script EXCEPT !.phase = "compare", !.keys2 = script.building,
                              !.building = <<>>]
  /\ UNCHANGED <<poolVars, items>>
  /\ UNCHANGED handleVars

\* one delitem(items, key) of [delitem(items, key) for key in items.keys()];
\* the keys of the dict come in ascending order.  An exception ends the test.
ReuseDelitem ==
  /\ script.phase \in {"delete1", "delete2"}
  /\ garbage = <<>>
  /\ DOMAIN items # {}
  /\ \E p0 \in 0 .. (Len(free) - 1) :
       /\ DoDictDelitem(MinKey(items), p0)
       /\ script' = IF KeypoolDictDelitem(items, free, start, MinKey(items),
                                          p0).result = "ok"
                    THEN script
                    ELSE [script EXCEPT !.phase = "raised"]
  /\ UNCHANGED garbage
  /\ UNCHANGED handleVars

\* the list of deletions is finished
ReuseDeleted ==
  /\ script.phase \in {"delete1", "delete2"}
  /\ garbage = <<>>
  /\ DOMAIN items = {}
  /\ script' = IF script.phase = "delete1"
               THEN [script EXCEPT !.phase = "insert2"]
               ELSE [script EXCEPT !.phase = "choose", !.iter = @ + 1]
  /\ UNCHANGED <<poolVars, dictVars>>
  /\ UNCHANGED handleVars

\* assert keys == keys2; assert_unique(keys)
ListEq(a, b) ==
  /\ Len(a) = Len(b)
  /\ \A i \in 1 .. Len(a) : DeferredKeyEq(a[i], b[i])

assert_unique(ks) ==
  \A i, j \in 1 .. Len(ks) : i # j => ks[i].key # ks[j].key

ReuseCompare ==
  /\ script.phase = "compare"
  /\ garbage = <<>>
  /\ script' = IF ListEq(script.keys, script.keys2) /\ assert_unique(script.keys)
               THEN [script EXCEPT !.phase = "delete2"]
               ELSE [script EXCEPT !.phase = "failed"]
  /\ UNCHANGED <<poolVars, dictVars>>
  /\ UNCHANGED handleVars

ReuseDispose ==
  /\ script.phase \in {"delete1", "compare"}
  /\ Dispose
  /\ UNCHANGED handleVars

NextReuse ==
  \/ ReuseChoose
  \/ ReuseSetitem
  \/ ReuseBindKeys
  \/ ReuseBindKeys2
  \/ ReuseDelitem
  \/ ReuseDeleted
  \/ ReuseCompare
  \/ ReuseDispose

SpecReuse == InitReuse /\ [][NextReuse]_vars

\* ------------------------------------------------- handle and container calls

\* The 'key' property with the None test left out: every read takes a key.
DeferredKeyKeyAlwaysTakes(h, f, al) ==
  IF al
  THEN [result |-> "ok", h |-> [h EXCEPT !.key = KeypoolNext(f).ret],
        free |-> KeypoolNext(f).free, ret |-> KeypoolNext(f).ret,
        took |-> TRUE]
  ELSE [result |-> "ReferenceError", h |-> h, free |-> f, ret |-> None,
        took |-> FALSE]

\* The 'key' property with a dead pool reference swallowed.
DeferredKeyKeySwallows(h, f, al) ==
  IF h.key = None
  THEN IF al
       THEN [result |-> "ok", h |-> [h EXCEPT !.key = KeypoolNext(f).ret],
             free |-> KeypoolNext(f).free, ret |-> KeypoolNext(f).ret,
             took |-> TRUE]
       ELSE [result |-> "ok", h |-> h, free |-> f, ret |-> None,
             took |-> FALSE]
  ELSE [result |-> "ok", h |-> h, free |-> f, ret |-> h.key, took |-> FALSE]

\* DeferredKey.key (the property): the first read takes a key from the pool
\* f and caches it.  al tells whether the pool still exists; calling next()
\* through the weak proxy of a dead pool raises ReferenceError, which the
\* property does not catch.
DeferredKeyKey(h, f, al) ==
  IF h.key = None
  THEN IF al
       THEN [result |-> "ok", h |-> [h EXCEPT !.key = KeypoolNext(f).ret],
             free |-> KeypoolNext(f).free, ret |-> KeypoolNext(f).ret,
             took |-> TRUE]
       ELSE [result |-> "ReferenceError", h |-> h, free |-> f, ret |-> None,
             took |-> FALSE]
  ELSE [result |-> "ok", h |-> h, free |-> f, ret |-> h.key, took |-> FALSE]

\* DeferredKey.__del__: releases the key when it was taken and _autodel is
\* set.  ReferenceError (dead pool) is caught; any other exception raised in
\* a finalizer is reported on stderr and dropped by the interpreter, so the
\* caller sees none.  'released' is the outcome of the pool's __delitem__.
DeferredKeyDel(h, f, st, al, p0) ==
  IF h.key # None /\ h.autodel
  THEN IF al
       THEN [result |-> "ok",
             released |-> KeypoolDelitem(f, st, h.key, p0).result,
             free |-> KeypoolDelitem(f, st, h.key, p0).free]
       ELSE [result |-> "ok", released |-> "ReferenceError", free |-> f]
  ELSE [result |-> "ok", released |-> "none", free |-> f]

\* DeferredKey.__eq__ with an int on the right: other._key raises
\* AttributeError (or self._key is None), and either way the result is False.
DeferredKeyEqInt(h, k) ==
  IF h.key = None THEN FALSE ELSE FALSE

\* KeypoolDict.next that takes the key at once.
KeypoolDictNextEager(f) ==
  [h |-> [DeferredKeyInit EXCEPT !.key = KeypoolNext(f).ret],
   free |-> KeypoolNext(f).free]

\* KeypoolDict.next: a new DeferredKey on the container's pool.
KeypoolDictNext(f) == [h |-> DeferredKeyInit, free |-> f]

\* KeypoolDict.__setitem__ with a DeferredKey: _autodel is cleared, the key
\* is read and the value stored under it.
KeypoolDictSetitem(d, h, f, val) ==
  LET r == DeferredKeyKey([h EXCEPT !.autodel = FALSE], f, TRUE)
  IN [h |-> r.h, free |-> r.free, ret |-> r.ret, took |-> r.took,
      items |-> DictPut(d, r.ret, val)]

\* KeypoolDict.__contains__ with a DeferredKey
KeypoolDictContains(d, h, f) ==
  LET r == DeferredKeyKey(h, f, TRUE)
  IN [h |-> r.h, free |-> r.free, ret |-> r.ret, took |-> r.took,
      truth |-> r.ret \in DOMAIN d]

\* What a call did to the pool when it read the key of a handle: r is the
\* outcome of that read.
TakeKey(r) ==
  /\ free' = r.free
  /\ inuse' = IF r.took THEN inuse \cup {r.ret} ELSE inuse
  /\ last' = IF r.took
             THEN [op |-> "allocate", key |-> None, pivot |-> 0,
                   result |-> "ok", ret |-> r.ret, index |-> 0, probes |-> 0,
                   prevFree |-> free, prevInuse |-> inuse]
             ELSE NoOp
  /\ UNCHANGED start

\* ------------------------------------------------- a caller of a KeypoolDict
\* The caller keeps its DeferredKey objects in the list script.keys and
\* refers to them by position.  A finalizer runs as soon as the last
\* reference goes, so nothing else happens while garbage is non-empty.

InitDict ==
  /\ start = 0
  /\ free = KeypoolInit(start)
  /\ inuse = {}
  /\ last = NoOp
  /\ items = EmptyDict
  /\ garbage = <<>>
  /\ script = Script("dict")
  /\ alive = TRUE
  /\ dlast = NoDictOp

Ready == script.phase = "dict" /\ garbage = <<>>

\* May the handle h be read now?  A read that takes a key needs room.
CanRead(h) == h.key # None \/ Cardinality(inuse) < MaxDictKeys

\* keys.append(items.next())
DictNext ==
  /\ Ready /\ alive
  /\ Len(script.keys) < MaxHandles
  /\ \E r \in {KeypoolDictNext(free)} :
       /\ script' = [script EXCEPT !.keys = Append(@, r.h)]
       /\ free' = r.free
       /\ dlast' = [NoDictOp EXCEPT !.op = "next", !.h = Len(script.keys) + 1]
  /\ last' = NoOp
  /\ UNCHANGED <<start, inuse, items, garbage, alive>>

\* items.setitem(val), the handle returned being kept or thrown away
DictSetitem ==
  /\ Ready /\ alive
  /\ Cardinality(inuse) < MaxDictKeys
  /\ \E val \in Vals : \E keep \in BOOLEAN :
     \E h \in {[key |-> k, autodel |-> FALSE] :
                 k \in start .. (start + MaxDictKeys)} :
       /\ keep => Len(script.keys) < MaxHandles
       /\ DoSetitem(val, h)
       /\ script' = IF keep THEN [script EXCEPT !.keys = Append(@, h)]
                    ELSE script
       /\ garbage' = IF keep THEN garbage ELSE <<h>>
       /\ dlast' = [NoDictOp EXCEPT !.op = "setitem", !.key = h.key,
                                    !.took = TRUE]
  /\ UNCHANGED alive

\* items[keys[i]] = val
DictPutHandle ==
  /\ Ready /\ alive
  /\ \E i \in 1 .. Len(script.keys) : \E val \in Vals :
       /\ CanRead(script.keys[i])
       /\ \E r \in {KeypoolDictSetitem(items, script.keys[i], free, val)} :
            /\ TakeKey(r)
            /\ items' = r.items
            /\ script' = [script EXCEPT !.keys[i] = r.h]
            /\ dlast' = [NoDictOp EXCEPT !.op = "put", !.h = i,
                                         !.key = r.ret, !.took = r.took]
  /\ UNCHANGED <<garbage, alive>>

\* keys[i] in items
DictContains ==
  /\ Ready /\ alive
  /\ \E i \in 1 .. Len(script.keys) :
       /\ CanRead(script.keys[i])
       /\ \E r \in {KeypoolDictContains(items, script.keys[i], free)} :
            /\ TakeKey(r)
            /\ script' = [script EXCEPT !.keys[i] = r.h]
            /\ dlast' = [NoDictOp EXCEPT !.op = "contains", !.h = i,
                                         !.key = r.ret, !.took = r.took,
                                         !.truth = r.truth]
  /\ UNCHANGED <<items, garbage, alive>>

\* str(keys[i]) or keys[i].key, also after the pool is gone
DictObserve ==
  /\ Ready
  /\ \E i \in 1 .. Len(script.keys) :
       /\ CanRead(script.keys[i])
       /\ \E r \in {DeferredKeyKey(script.keys[i], free, alive)} :
            /\ TakeKey(r)
            /\ script' = [script EXCEPT !.keys[i] = r.h]
            /\ dlast' = [NoDictOp EXCEPT !.op = "observe", !.h = i,
                                         !.key = r.ret, !.took = r.took,
                                         !.result = r.result]
  /\ UNCHANGED <<items, garbage, alive>>

\* keys[i] == k for an int k
DictEqInt ==
  /\ Ready
  /\ \E i \in 1 .. Len(script.keys) : \E k \in start .. (start + MaxDictKeys) :
       dlast' = [NoDictOp EXCEPT !.op = "eq", !.h = i, !.key = k,
                                 !.truth = DeferredKeyEqInt(script.keys[i], k)]
  /\ last' = NoOp
  /\ UNCHANGED <<start, free, inuse, dictVars, script, alive>>

\* The state after del self._pool[key]; super().__delitem__(key) for the
\* int key that the read r of the argument gave, the random pivot being p0.
\* The dict raises KeyError itself when the key is not in it.
DeleteKey(r, p0, i) ==
  \E rr \in {KeypoolDictDelitem(items, r.free, start, r.ret, p0)} :
    /\ free' = rr.free
    /\ items' = rr.items
    /\ inuse' = IF rr.result = "ok"
                THEN (IF r.took THEN inuse \cup {r.ret} ELSE inuse) \ {r.ret}
                ELSE (IF r.took THEN inuse \cup {r.ret} ELSE inuse)
    /\ last' = [op |-> "release", key |-> r.ret, pivot |-> p0,
                result |-> rr.result, ret |-> None, index |-> rr.index,
                probes |-> rr.probes,
                prevFree |-> r.free,
                prevInuse |-> IF r.took THEN inuse \cup {r.ret} ELSE inuse]
    /\ dlast' = [NoDictOp EXCEPT
                   !.op = "delete", !.h = i, !.key = r.ret, !.took = r.took,
                   !.released = rr.result,
                   !.truth = r.ret \in DOMAIN items,
                   !.result = IF rr.result # "ok" THEN rr.result
                              ELSE IF r.ret \in DOMAIN items THEN "ok"
                              ELSE "KeyError"]
    /\ UNCHANGED start

\* del items[keys[i]]
DictDeleteHandle ==
  /\ Ready /\ alive
  /\ \E i \in 1 .. Len(script.keys) : \E p0 \in 0 .. (Len(free) - 1) :
       /\ CanRead(script.keys[i])
       /\ \E r \in {DeferredKeyKey(script.keys[i], free, TRUE)} :
            /\ DeleteKey(r, IF p0 < Len(r.free) THEN p0 ELSE 0, i)
            /\ script' = [script EXCEPT !.keys[i] = r.h]
  /\ UNCHANGED <<garbage, alive>>

\* del items[k] for an int k
DictDeleteInt ==
  /\ Ready /\ alive
  /\ \E k \in start .. (start + MaxDictKeys) : \E p0 \in 0 .. (Len(free) - 1) :
       DeleteKey([ret |-> k, free |-> free, took |-> FALSE], p0, 0)
  /\ UNCHANGED <<garbage, script, alive>>

\* items[k] = val for an int k: the key bypasses the pool
DictPutInt ==
  /\ Ready /\ alive
  /\ \E k \in start .. (start + MaxDictKeys) : \E val \in Vals :
       /\ items' = DictPut(items, k, val)
       /\ dlast' = [NoDictOp EXCEPT !.op = "putint", !.key = k]
  /\ last' = NoOp
  /\ UNCHANGED <<start, free, inuse, garbage, script, alive>>

\* del keys[i]: the caller drops its reference to a handle
DictDrop ==
  /\ Ready
  /\ \E i \in 1 .. Len(script.keys) :
       /\ garbage' = <<script.keys[i]>>
       /\ script' = [script EXCEPT !.keys = ListDel(@, i - 1)]
       /\ dlast' = [NoDictOp EXCEPT !.op = "drop", !.h = i,
                                    !.key = script.keys[i].key]
  /\ last' = NoOp
  /\ UNCHANGED <<start, free, inuse, items, alive>>

\* DeferredKey.__del__ of the handle just dropped
DictDispose ==
  /\ script.phase = "dict"
  /\ garbage # <<>>
  /\ \E p0 \in 0 .. (Len(free) - 1) :
     \E r \in {DeferredKeyDel(Head(garbage), free, start, alive, p0)} :
       /\ free' = r.free
       /\ inuse' = IF r.released = "ok" THEN inuse \ {Head(garbage).key}
                   ELSE inuse
       /\ last' = IF r.released \in {"ok", "KeyError", "ValueError"}
                  THEN [op |-> "release", key |-> Head(garbage).key,
                        pivot |-> p0, result |-> r.released, ret |-> None,
                        index |-> KeypoolDelitem(free, start, Head(garbage).key,
                                                 p0).index,
                        probes |-> KeypoolDelitem(free, start,
                                                  Head(garbage).key, p0).probes,
                        prevFree |-> free, prevInuse |-> inuse]
                  ELSE NoOp
       /\ dlast' = [NoDictOp EXCEPT !.op = "dispose",
                                    !.key = Head(garbage).key,
                                    !.truth = Head(garbage).autodel,
                                    !.released = r.released,
                                    !.result = r.result]
  /\ garbage' = Tail(garbage)
  /\ UNCHANGED <<start, items, script, alive>>

\* del items: the container and its pool go away, the handles stay.  A pool
\* that no longer exists has no state: its variables go back to their
\* initial values and are not read again.
DictDestroy ==
  /\ Ready /\ alive
  /\ alive' = FALSE
  /\ dlast' = [NoDictOp EXCEPT !.op = "destroy"]
  /\ last' = NoOp
  /\ free' = KeypoolInit(start)
  /\ inuse' = {}
  /\ items' = EmptyDict
  /\ UNCHANGED <<start, garbage, script>>

NextDict ==
  \/ DictNext
  \/ DictSetitem
  \/ DictPutHandle
  \/ DictContains
  \/ DictObserve
  \/ DictEqInt
  \/ DictDeleteHandle
  \/ DictDeleteInt
  \/ DictDrop
  \/ DictDispose
  \/ DictDestroy

SpecDict == InitDict /\ [][NextDict]_vars

\* The same caller, who also stores under int keys of its own.
NextDictAny == NextDict \/ DictPutInt

SpecDictAny == InitDict /\ [][NextDictAny]_vars

\* ------------------------------------------------- make handles, then discard
\* A caller that takes handles from a KeypoolDict, resolves each one either
\* by reading it (str(h)) or by storing a value under it (items[h] = val),
\* and afterwards drops its references one by one, in any order.

InitDiscard ==
  /\ start = 0
  /\ free = KeypoolInit(start)
  /\ inuse = {}
  /\ last = NoOp
  /\ items = EmptyDict
  /\ garbage = <<>>
  /\ script = Script("make")
  /\ alive = TRUE
  /\ dlast = NoDictOp

\* h = items.next(); keys.append(h); then str(h) or items[h] = val
DiscardMake ==
  /\ script.phase = "make"
  /\ Len(script.keys) < MaxDiscard
  /\ \E put \in BOOLEAN : \E val \in Vals :
     \E r \in {IF put
               THEN KeypoolDictSetitem(items, KeypoolDictNext(free).h,
                                       KeypoolDictNext(free).free, val)
               ELSE [DeferredKeyKey(KeypoolDictNext(free).h,
                                    KeypoolDictNext(free).free, alive)
                       EXCEPT !.result = items]} :
       /\ TakeKey(r)
       /\ items' = IF put THEN r.items ELSE items
       /\ script' = [script EXCEPT !.keys = Append(@, r.h)]
       /\ dlast' = [NoDictOp EXCEPT !.op = IF put THEN "put" ELSE "observe",
                                    !.h = Len(script.keys) + 1,
                                    !.key = r.ret, !.took = r.took]
  /\ UNCHANGED <<garbage, alive>>

\* the caller starts dropping its references
DiscardBegin ==
  /\ script.phase = "make"
  /\ script.keys # <<>>
  /\ script' = [script EXCEPT !.phase = "dict"]
  /\ dlast' = [NoDictOp EXCEPT !.op = "begin"]
  /\ last' = NoOp
  /\ UNCHANGED <<start, free, inuse, dictVars, alive>>

NextDiscard == DiscardMake \/ DiscardBegin \/ DictDrop \/ DictDispose

SpecDiscard == InitDiscard /\ [][NextDiscard]_vars

\* ------------------------------------------------------------- properties

\* k lies inside some range of the free list f.
InFree(f, k) ==
  \E i \in 1 .. Len(f) :
    /\ f[i][1] <= k
    /\ (f[i][2] = Infinity \/ k <= f[i][2])

\* The lowest key >= start that is not in the set S of keys in use.
LowestFree(S) ==
  CHOOSE k \in start .. (start + MaxAlloc) :
    /\ k \notin S
    /\ \A j \in start .. (k - 1) : j \in S

\* C1: allocate() never returns a key that is in use at the time of the call
\* (allocated earlier and not successfully released since); so the keys of
\* allocate() calls with no release in between are pairwise distinct.
AllocateNeverReturnsInUse ==
  last.op = "allocate" =>
    /\ last.ret \notin last.prevInuse
    /\ inuse = last.prevInuse \cup {last.ret}
    /\ Cardinality(inuse) = Cardinality(last.prevInuse) + 1

\* C1 witness: an allocate() served while other keys, some of them larger
\* than the one returned, are outstanding.
AllocateWhileOthersInUse ==
  /\ last.op = "allocate"
  /\ Cardinality(last.prevInuse) >= 3
  /\ \E k \in last.prevInuse : k > last.ret

\* C2: allocate() returns the lowest free key >= start.
AllocateReturnsLowestFree ==
  last.op = "allocate" => last.ret = LowestFree(last.prevInuse)

\* C2 witness: k0 = start was released while larger keys stay in use, and
\* the next allocate() hands k0 out again.
AllocateReusesLowestReleased ==
  /\ last.op = "allocate"
  /\ last.ret = start
  /\ Cardinality(last.prevInuse) >= 2
  /\ Len(last.prevFree) = 2

\* C3 (as claimed): release(k) of a key in use returns normally and leaves k
\* free, for every pivot; KeyError is raised only for a key inside a free
\* range.
ReleaseOfInUseKeySucceeds ==
  last.op = "release" =>
    /\ last.key \in last.prevInuse =>
         (last.result = "ok" /\ InFree(free, last.key))
    /\ last.result = "KeyError" => InFree(last.prevFree, last.key)

\* C5 (as claimed): k = allocate() immediately followed by release(k)
\* restores the free list that preceded the allocate().
AllocateReleaseRoundTrip ==
  [][(last.op = "allocate" /\ last'.op = "release" /\ last'.key = last.ret)
       => free' = last.prevFree]_vars

\* C6: the free ranges and the keys in use partition the integers >= start:
\* every key >= start is in exactly one of them, no key below start is in
\* either, and everything above the keys in use is covered by the unbounded
\* last range.
FreeAndInUsePartition ==
  /\ \A k \in (start - 2) .. (start + MaxAlloc + 2) :
       IF k >= start
       THEN InFree(free, k) <=> k \notin inuse
       ELSE ~InFree(free, k) /\ k \notin inuse
  /\ Len(free) >= 1
  /\ free[Len(free)][2] = Infinity
  /\ \A k \in inuse : k >= start /\ k < free[Len(free)][1]

\* C6 witness: after a successful release the in-use keys and the free
\* ranges interleave.
PartitionInterleaved ==
  /\ last.op = "release"
  /\ last.result = "ok"
  /\ Len(free) >= 4
  /\ Cardinality(inuse) >= 4

\* C7: the free list is well formed: non-empty, lo <= hi in every range,
\* ascending, disjoint and non-adjacent, the infinity sentinel exactly on
\* the last range.
FreeListWellFormed ==
  /\ Len(free) >= 1
  /\ \A i \in 1 .. Len(free) :
       /\ free[i][1] # Infinity
       /\ free[i][1] >= start
       /\ (i = Len(free)) <=> (free[i][2] = Infinity)
       /\ i < Len(free) => free[i][1] <= free[i][2]
       /\ i < Len(free) => free[i][2] + 1 < free[i + 1][1]

\* C7 witness: a release that merged the key with both neighbours, leaving
\* several ranges.
ReleaseMergedBothSides ==
  /\ last.op = "release"
  /\ last.result = "ok"
  /\ Len(free) >= 2
  /\ Len(free) = Len(last.prevFree) - 1

\* C8: release of a free key >= start raises KeyError for every pivot and
\* leaves the free list as it was.
ReleaseOfFreeKeyRaisesKeyError ==
  (last.op = "release" /\ last.key >= start
     /\ InFree(last.prevFree, last.key)) =>
    (last.result = "KeyError" /\ free = last.prevFree
       /\ inuse = last.prevInuse)

\* C8 witness: a free key inside a finite range, with keys in use on both
\* sides, is released and the call raises KeyError.
ReleaseOfFreeKeyInMiddleRange ==
  /\ last.op = "release"
  /\ last.result = "KeyError"
  /\ Len(free) >= 3
  /\ \E i \in 2 .. (Len(free) - 1) :
       free[i][1] <= last.key /\ last.key <= free[i][2]

\* C9: release of a key below start raises ValueError before any probe of
\* the free list, and the free list is unchanged.
ReleaseBelowStartRaisesValueError ==
  (last.op = "release" /\ last.key < start) =>
    (last.result = "ValueError" /\ last.probes = 0
       /\ free = last.prevFree /\ inuse = last.prevInuse)

\* C9 witness: release(start - 1) on a pool with keys outstanding.
ReleaseBelowStartAttempted ==
  /\ last.op = "release"
  /\ last.key = start - 1
  /\ last.result = "ValueError"
  /\ Len(free) >= 2

\* C4 (as claimed): after some allocate() calls and then one release() call
\* for every outstanding key, in any order and for any pivots, the free list
\* is the single range [start, infinity] again.
DrainLeavesSingleRange ==
  (script.phase = "release" /\ script.pending = {}) =>
    free = <<<<start, Infinity>>>>

\* C10: in test_reuse the second batch of keys equals the first, key for key
\* and in the same order, the keys of each batch are pairwise distinct, and
\* no deletion raises.
ReuseSecondBatchEqualsFirst ==
  /\ script.phase \notin {"raised", "failed"}
  /\ script.phase = "delete2" =>
       /\ Len(script.keys) = script.n
       /\ Len(script.keys2) = script.n
       /\ \A i \in 1 .. script.n :
            /\ script.keys[i].key # None
            /\ script.keys2[i].key = script.keys[i].key
       /\ assert_unique(script.keys)
       /\ assert_unique(script.keys2)

\* C10 witness: the comparison of a later iteration has passed for a batch
\* of at least three keys.
ReuseComparedLaterBatch ==
  /\ script.phase = "delete2"
  /\ script.iter >= 1
  /\ script.n >= 3
  /\ DOMAIN items = 0 .. (script.n - 1)

\* C18: whenever locate returns an index i, i is the insertion position of
\* the key in the free list: key < free[i].lo and (i = 0 or
\* key > free[i-1].hi); the key lies in no free range.
LocateReturnsInsertionIndex ==
  (last.op = "release" /\ last.result = "ok") =>
    /\ last.index \in 0 .. (Len(last.prevFree) - 1)
    /\ last.key < At(last.prevFree, last.index)[1]
    /\ last.index > 0 =>
         /\ At(last.prevFree, last.index - 1)[2] # Infinity
         /\ last.key > At(last.prevFree, last.index - 1)[2]
    /\ ~InFree(last.prevFree, last.key)

\* C18 witness: locate returned an index in the middle of the list after
\* moving the probe.
LocateReturnedMiddleIndex ==
  /\ last.op = "release"
  /\ last.result = "ok"
  /\ last.index >= 2
  /\ last.index < Len(last.prevFree) - 1
  /\ last.probes >= 2

\* C20: for every key >= start and every initial pivot, each probe index of
\* locate is within the free list.
ProbeIndexInRange ==
  (last.op = "release" /\ last.key >= start) =>
    \A s \in {ProbeSeq(last.prevFree, last.key, last.pivot, 0)} :
      /\ Len(s) >= 1
      /\ \A j \in 1 .. Len(s) : s[j] >= 0 /\ s[j] <= Len(last.prevFree) - 1

\* C20 witness: a search over five or more ranges that made three probes,
\* moving up and then down again.
ProbeMovedUpAndDown ==
  /\ last.op = "release"
  /\ last.key >= start
  /\ Len(last.prevFree) >= 5
  /\ \E s \in {ProbeSeq(last.prevFree, last.key, last.pivot, 0)} :
       Len(s) = 3 /\ s[2] > s[1] /\ s[3] < s[2]

\* C11 (as claimed): every int key in the mapping that came from the
\* container's allocator is in use in that allocator (lies in no free range).
MappingKeysAreInUse ==
  (script.phase = "dict" /\ alive) =>
    \A k \in DOMAIN items : ~InFree(free, k)

\* C12 (as claimed): delete(key) always removes the entry for key, also when
\* the release of the key raises, and the error of the release reaches the
\* caller.
DeleteAlwaysRemovesEntry ==
  dlast.op = "delete" =>
    /\ dlast.key \notin DOMAIN items
    /\ dlast.released # "ok" => dlast.result = dlast.released

\* C13: a handle resolves at most once.  The first observation takes exactly
\* one key and caches it; a later observation (key access, contains, put)
\* returns the cached key and leaves the free list unchanged.
HandleResolvesOnce ==
  [][\A i \in 1 .. Len(script.keys) :
       (dlast'.op \in {"observe", "contains", "put"} /\ dlast'.h = i /\ alive)
         => IF script.keys[i].key # None
            THEN /\ dlast'.key = script.keys[i].key
                 /\ script'.keys[i].key = script.keys[i].key
                 /\ ~dlast'.took
                 /\ free' = free
                 /\ inuse' = inuse
            ELSE /\ dlast'.took
                 /\ dlast'.key \notin inuse
                 /\ inuse' = inuse \cup {dlast'.key}
                 /\ script'.keys[i].key = dlast'.key
                 /\ free' = KeypoolNext(free).free]_vars

\* C13 witness: a put with a handle that had been resolved before, onto an
\* entry that exists already.
HandleObservedAgain ==
  /\ dlast.op = "put"
  /\ ~dlast.took
  /\ dlast.key # None
  /\ Cardinality(DOMAIN items) >= 2

\* C15: next() leaves the free list and the mapping unchanged and returns an
\* unresolved handle; whatever the number of unresolved handles, a
\* resolution takes the lowest free key.
NextConsumesNoKey ==
  [][/\ dlast'.op = "next" =>
          /\ free' = free
          /\ inuse' = inuse
          /\ items' = items
          /\ Len(script'.keys) = Len(script.keys) + 1
          /\ script'.keys[Len(script'.keys)].key = None
     /\ (dlast'.op \in {"observe", "contains", "put", "setitem"}
           /\ dlast'.took) =>
          \A k \in start .. (dlast'.key - 1) : InFree(free, k) = FALSE
    ]_vars

\* C15 witness: next() was called with an unresolved handle outstanding
\* and keys in use.
NextCalledTwiceUnobserved ==
  /\ dlast.op = "next"
  /\ Len(script.keys) = 2
  /\ script.keys[1].key = None
  /\ script.keys[2].key = None
  /\ inuse # {}

ResolvedHandleEqualsItsInt ==
  (dlast.op = "eq" /\ script.keys[dlast.h].key = dlast.key) => dlast.truth

\* C19 (as claimed): setitem never stores under a key that is already in
\* the mapping.
SetitemNeverOverwrites ==
  [][dlast'.op = "setitem" => dlast'.key \notin DOMAIN items]_vars

\* C14 (as claimed): discarding a resolved handle whose auto-release flag is
\* set releases exactly its key; discarding one whose flag was cleared by
\* put(handle, value) leaves the free list as it was and the key in use.
DiscardReleasesUnlessOwned ==
  [][(dlast'.op = "dispose" /\ alive /\ dlast'.key # None) =>
       IF dlast'.truth
       THEN /\ InFree(free', dlast'.key)
            /\ inuse' = inuse \ {dlast'.key}
            /\ \A k \in 0 .. (MaxDiscard + 1) :
                 k # dlast'.key => (InFree(free', k) <=> InFree(free, k))
       ELSE /\ free' = free
            /\ inuse' = inuse]_vars

====
